---- MODULE Spec2Model ----
(***************************************************************************)
(* Ticket issuance (src/main.py, FastAPI handlers create_ticket and        *)
(* get_ticket) and gate redemption (src/scanner.py, verify_ticket) over    *)
(* one shared Postgres table "tickets".                                    *)
(*                                                                         *)
(* Every handler is split at its store statements, because other           *)
(* connections can run between two statements of one handler.  The store   *)
(* is Postgres at its default isolation level READ COMMITTED: a statement  *)
(* sees the rows committed before it starts plus the writes of its own     *)
(* transaction; an UPDATE waits for a concurrent uncommitted UPDATE of the *)
(* same row and then runs on the committed row; an INSERT waits for a      *)
(* concurrent uncommitted INSERT of the same unique key.                   *)
(*                                                                         *)
(* Text is a sequence of one-character strings.                            *)
(***************************************************************************)
EXTENDS Integers, Sequences, FiniteSets, TLC

(* ------------------------------ bounds -------------------------------- *)

\* HTTP requests served at the same time (uvicorn worker threads).
NumRequests == 2

\* Gate devices, each one QRScannerApp with its own connection.
NumScanners == 2

\* Identifiers uuid.uuid4() hands out before the model stops issuing.
MaxUid == 2

Requests == 1..NumRequests
Scanners == 1..NumScanners

\* What a gate can be shown: every identifier, and one that is never issued.
Payloads == 1..(MaxUid + 1)

NoUid == 0

(* ------------------------------- text --------------------------------- *)

Rep(c, n) == [i \in 1..n |-> c]

IsSpace(c) == c = " "

RECURSIVE LStrip(_)
LStrip(s) == IF s # <<>> /\ IsSpace(Head(s)) THEN LStrip(Tail(s)) ELSE s

RECURSIVE RStrip(_)
RStrip(s) ==
    IF s # <<>> /\ IsSpace(s[Len(s)]) THEN RStrip(SubSeq(s, 1, Len(s) - 1)) ELSE s

\* constr(strip_whitespace=True): leading and trailing whitespace removed.
Strip(s) == RStrip(LStrip(s))

\* EmailStr: one "@" with text on both sides, no whitespace.
EmailStr(s) ==
    /\ \A i \in 1..Len(s) : ~IsSpace(s[i])
    /\ Cardinality({i \in 1..Len(s) : s[i] = "@"}) = 1
    /\ \E i \in 2..(Len(s) - 1) : s[i] = "@"

(* ------------------------- pydantic schemas --------------------------- *)

\* class TicketType(str, Enum): the values the API accepts and the table stores.
TicketType == {"premium", "non_premium", "guest"}

\* ticket_count in a request body: left out, an integer, or not a number.
Absent == [kind |-> "absent"]
IntVal(n) == [kind |-> "int", val |-> n]
NotAnInt == [kind |-> "text"]

\* min_length / max_length of TicketCreate's constr fields.
NameMinLength == 1
MobileMinLength == 8
MobileMaxLength == 15
UpiMinLength == 5
TicketCountDefault == 1

\* ticket_count: int = 1 -- any integer passes, the default is 1.
TicketCountOk(c) == c.kind \in {"absent", "int"}

TicketCountOf(c) == IF c.kind = "int" THEN c.val ELSE TicketCountDefault

\* TicketCreate(BaseModel): does the request body validate?
TicketCreateValid(raw) ==
    /\ Len(Strip(raw.name)) >= NameMinLength
    /\ Len(Strip(raw.mobile)) >= MobileMinLength
    /\ Len(Strip(raw.mobile)) <= MobileMaxLength
    /\ EmailStr(raw.email)
    /\ Len(Strip(raw.upi_id)) >= UpiMinLength
    /\ raw.ticket_type \in TicketType
    /\ TicketCountOk(raw.ticket_count)

\* The TicketCreate object the handler receives.
TicketCreate(raw) ==
    [name         |-> Strip(raw.name),
     mobile       |-> Strip(raw.mobile),
     email        |-> raw.email,
     upi_id       |-> Strip(raw.upi_id),
     ticket_type  |-> raw.ticket_type,
     ticket_count |-> TicketCountOf(raw.ticket_count)]

NoTicket ==
    [name |-> <<>>, mobile |-> <<>>, email |-> <<>>, upi_id |-> <<>>,
     ticket_type |-> "", ticket_count |-> 0]

(* ------------------------- request bodies tried ----------------------- *)

Upi(c) == <<"u", "p", "i", "0", c>>

Asha ==
    [name         |-> <<"A">>,
     mobile       |-> Rep("9", 8),
     email        |-> <<"a", "@", "x">>,
     upi_id       |-> Upi("1"),
     ticket_type  |-> "premium",
     ticket_count |-> IntVal(2)]

\* Bodies that validate: two payment references, a second registrant on the
\* first one (padded name, no ticket_count), and a ticket_count of zero.
ValidBodies ==
    { Asha,
      [Asha EXCEPT !.name = <<" ", "B", " ">>, !.ticket_type = "guest",
                   !.ticket_count = Absent],
      [Asha EXCEPT !.upi_id = Upi("2"), !.ticket_type = "non_premium",
                   !.ticket_count = IntVal(0)] }

\* Bodies with one field wrong each.
InvalidBodies ==
    { [Asha EXCEPT !.name = <<" ">>],
      [Asha EXCEPT !.mobile = Rep("9", 7)],
      [Asha EXCEPT !.mobile = Rep("9", 16)],
      [Asha EXCEPT !.email = <<"a", "x">>],
      [Asha EXCEPT !.upi_id = <<"u", "p", "i">>],
      [Asha EXCEPT !.ticket_type = "vip"],
      [Asha EXCEPT !.ticket_count = NotAnInt] }

Bodies == ValidBodies \cup InvalidBodies

(* ------------------------------- state -------------------------------- *)

VARIABLES
    tickets,        \* the committed rows of table "tickets"
    nextUid,        \* how many identifiers uuid.uuid4() has handed out
    outbox,         \* the calls of send_ticket_email made so far
    pc,             \* per HTTP request: where its handler stands
    ticket,         \* per HTTP request: the validated TicketCreate
    ticket_uid,     \* per HTTP request: create_ticket's / get_ticket's ticket_uid
    row,            \* per HTTP request: what cur.fetchone() returned
    inserted,       \* per HTTP request: rows its open transaction has inserted
    conn,           \* per HTTP request: is the connection of get_db_conn open
    resp,           \* the HTTP response the last step sent, if it sent one
    spc,            \* per scanner: where verify_ticket stands
    scanned_uid,    \* per scanner: verify_ticket's ticket_uid
    updated,        \* per scanner: rows its open transaction has updated
    sconn,          \* per scanner: is self.conn still usable
    result,         \* what verify_ticket returned in the last step, if it returned
    admitted,       \* per identifier: how many calls returned "USER VERIFIED - OK"
    last_ticket,    \* per scanner: self.last_ticket
    last_success,   \* per scanner: self.last_success
    status_label,   \* per scanner: text and colour of self.status_label
    camera,         \* per scanner: is update_frame still scheduled
    presented,      \* per scanner: the payload decoded last since clear_scan
    frame           \* the frame update_frame worked on last, until a click

reqVars == <<pc, ticket, ticket_uid, row, inserted, conn>>
uiVars == <<last_ticket, last_success, status_label, camera, presented>>
scanVars == <<spc, scanned_uid, updated, sconn, admitted, uiVars, frame>>
vars == <<tickets, nextUid, outbox, reqVars, resp, scanVars, result>>

(* --------------------------- the tickets table ------------------------ *)

\* is_scanned is not in the INSERT's column list: the column default applies.
IsScannedDefault == FALSE

\* INSERT INTO tickets (ticket_uid, name, mobile, email, upi_id, ticket_type,
\* ticket_count) VALUES (...): the row the statement writes.
InsertValues(uid, t) ==
    [ticket_uid   |-> uid,
     name         |-> t.name,
     mobile       |-> t.mobile,
     email        |-> t.email,
     upi_id       |-> t.upi_id,
     ticket_type  |-> t.ticket_type,
     ticket_count |-> t.ticket_count,
     is_scanned   |-> IsScannedDefault]

\* Does the row collide with one of rows on a unique key of the table
\* (primary key ticket_uid, unique payment reference upi_id)?
UniqueViolation(rows, new) ==
    \E old \in rows : old.ticket_uid = new.ticket_uid \/ old.upi_id = new.upi_id

\* The duplicate check compares the wrong column.
ExistsByUpi_WrongColumn(rows, upi) == \E old \in rows : old.name = upi

\* SELECT 1 FROM tickets WHERE upi_id = %s LIMIT 1; then fetchone(): truthy?
ExistsByUpi(rows, upi) == \E old \in rows : old.upi_id = upi

\* SELECT ... FROM tickets WHERE ticket_uid = %s: the matching rows.
SelectByUid(rows, uid) == {old \in rows : old.ticket_uid = uid}

\* The update flips the flag instead of setting it.
UpdateIsScanned_Toggles(rows, uid) ==
    {IF old.ticket_uid = uid THEN [old EXCEPT !.is_scanned = ~@] ELSE old :
        old \in rows}

\* The update also rewrites another column of the row.
UpdateIsScanned_ResetsCount(rows, uid) ==
    {IF old.ticket_uid = uid
     THEN [old EXCEPT !.is_scanned = TRUE, !.ticket_count = 1]
     ELSE old : old \in rows}

\* UPDATE tickets SET is_scanned = TRUE WHERE ticket_uid = %s.
UpdateIsScanned(rows, uid) ==
    {IF old.ticket_uid = uid THEN [old EXCEPT !.is_scanned = TRUE] ELSE old :
        old \in rows}

\* RETURNING / SELECT ticket_uid, name, mobile, email, upi_id, ticket_type,
\* ticket_count: the seven columns of a row, in the handler's variable row.
Columns(r) ==
    [ticket_uid   |-> r.ticket_uid,
     name         |-> r.name,
     mobile       |-> r.mobile,
     email        |-> r.email,
     upi_id       |-> r.upi_id,
     ticket_type  |-> r.ticket_type,
     ticket_count |-> r.ticket_count]

NoRow == Columns(InsertValues(NoUid, NoTicket))

\* The identifier is made once and reused by every request.
uuid4_Repeats(n) == 1

\* uuid.uuid4(): an identifier no earlier call returned.
uuid4(n) == n + 1

(* ------------------------------ responses ----------------------------- *)

\* TicketResponse(ticket_uid=row[0], ..., ticket_type=TicketType(row[5]), ...)
TicketResponse(r) ==
    [status |-> 200, detail |-> "", body |-> r]

HTTPException(code, why) ==
    [status |-> code, detail |-> why, body |-> NoRow]

NoResponse == [status |-> 0, detail |-> "", body |-> NoRow]

ValidationError == HTTPException(422, "validation error")
UpiRegistered == HTTPException(400, "This UPI ID is already registered for a ticket.")
LookupFailed == HTTPException(500, "DB lookup failed: connection")
InsertFailed == HTTPException(500, "DB insert failed: connection")
InsertRejected == HTTPException(500, "DB insert failed: unique violation")
EmailFailed == HTTPException(500, "Failed to send email")
QueryFailed == HTTPException(500, "DB query failed: connection")
ConnectFailed == HTTPException(500, "Internal Server Error")
TicketNotFound == HTTPException(404, "Ticket not found")

\* verify_ticket's return values (message, is_success), with the ticket_uid
\* the call was made with.
Return(uid, msg, ok) == [ticket_uid |-> uid, message |-> msg, is_success |-> ok]

NotFound(uid) == Return(uid, "USER DOESN'T EXIST", FALSE)
AlreadyRedeemed(uid) == Return(uid, "USER ALREADY VERIFIED", FALSE)
Redeemed(uid) == Return(uid, "USER VERIFIED - OK", TRUE)
DbError(uid) == Return(uid, "DB ERROR", FALSE)
NoResult == Return(NoUid, "", FALSE)

\* self.status_label.config(text=..., fg=...)
Label(text, fg) == [text |-> text, fg |-> fg]

\* Label(self.root, text="SCAN A QR CODE", ...): no colour given.
ScanAQrCode == Label("SCAN A QR CODE", "default")

\* The frame update_frame worked on: whose camera, and the ticket_uid
\* decoded from it (NoUid when no code was in the frame).
Frame(s, uid) == [scanner |-> s, ticket_uid |-> uid]
NoFrame == Frame(0, NoUid)

(* -------------------------------- Init -------------------------------- *)

Init ==
    /\ tickets = {}
    /\ nextUid = 0
    /\ outbox = {}
    /\ pc = [r \in Requests |-> "idle"]
    /\ ticket = [r \in Requests |-> NoTicket]
    /\ ticket_uid = [r \in Requests |-> NoUid]
    /\ row = [r \in Requests |-> NoRow]
    /\ inserted = [r \in Requests |-> {}]
    /\ conn = [r \in Requests |-> FALSE]
    /\ resp = NoResponse
    /\ spc = [s \in Scanners |-> "idle"]
    /\ scanned_uid = [s \in Scanners |-> NoUid]
    /\ updated = [s \in Scanners |-> {}]
    /\ sconn = [s \in Scanners |-> TRUE]
    /\ result = NoResult
    /\ admitted = [uid \in Payloads |-> 0]
    /\ last_ticket = [s \in Scanners |-> NoUid]
    /\ last_success = [s \in Scanners |-> FALSE]
    /\ status_label = [s \in Scanners |-> ScanAQrCode]
    /\ camera = [s \in Scanners |-> TRUE]
    /\ presented = [s \in Scanners |-> NoUid]
    /\ frame = NoFrame

(* ----------------------- main.py: a request ends ---------------------- *)

\* get_db_conn without its finally: the connection stays open.
Respond_LeavesOpen(r, response) ==
    /\ resp' = response
    /\ pc' = [pc EXCEPT ![r] = "idle"]
    /\ ticket' = [ticket EXCEPT ![r] = NoTicket]
    /\ ticket_uid' = [ticket_uid EXCEPT ![r] = NoUid]
    /\ row' = [row EXCEPT ![r] = NoRow]
    /\ inserted' = [inserted EXCEPT ![r] = {}]
    /\ conn' = conn
    /\ result' = NoResult

\* The handler returns or raises: the response goes out, the handler's locals
\* go away, and get_db_conn's finally closes the connection (taking any open
\* transaction with it).
Respond(r, response) ==
    /\ resp' = response
    /\ pc' = [pc EXCEPT ![r] = "idle"]
    /\ ticket' = [ticket EXCEPT ![r] = NoTicket]
    /\ ticket_uid' = [ticket_uid EXCEPT ![r] = NoUid]
    /\ row' = [row EXCEPT ![r] = NoRow]
    /\ inserted' = [inserted EXCEPT ![r] = {}]
    /\ conn' = [conn EXCEPT ![r] = FALSE]
    /\ result' = NoResult

\* The handler moves on to its next statement.
Goto(r, at) ==
    /\ pc' = [pc EXCEPT ![r] = at]
    /\ resp' = NoResponse
    /\ result' = NoResult

(* --------------------- main.py: POST /tickets ------------------------- *)

\* The request body fails TicketCreate's validation: FastAPI answers 422 and
\* create_ticket's body never runs.
create_ticket_invalid(r, raw) ==
    /\ pc[r] = "idle"
    /\ ~TicketCreateValid(raw)
    /\ Respond(r, ValidationError)
    /\ UNCHANGED <<tickets, nextUid, outbox, scanVars>>

\* get_db_conn opens the connection; ticket_uid = str(uuid.uuid4()).
create_ticket_begin(r, raw) ==
    /\ pc[r] = "idle"
    /\ TicketCreateValid(raw)
    /\ nextUid < MaxUid
    /\ nextUid' = uuid4(nextUid)
    /\ ticket' = [ticket EXCEPT ![r] = TicketCreate(raw)]
    /\ ticket_uid' = [ticket_uid EXCEPT ![r] = nextUid']
    /\ conn' = [conn EXCEPT ![r] = TRUE]
    /\ Goto(r, "precheck")
    /\ UNCHANGED <<tickets, outbox, row, inserted, scanVars>>

\* The pre-check sends the email again when it finds the reference.
create_ticket_precheck_Resends(r) ==
    /\ pc[r] = "precheck"
    /\ IF ExistsByUpi(tickets, ticket[r].upi_id)
       THEN /\ Respond(r, UpiRegistered)
            /\ outbox' = outbox \cup
                 {[to |-> old.email, ticket_uid |-> old.ticket_uid,
                   ticket |-> ticket[r], qr |-> old.ticket_uid,
                   delivered |-> TRUE] :
                     old \in {x \in tickets : x.upi_id = ticket[r].upi_id}}
       ELSE /\ Goto(r, "insert")
            /\ UNCHANGED <<outbox, ticket, ticket_uid, row, inserted, conn>>
    /\ UNCHANGED <<tickets, nextUid, scanVars>>

\* 0) Check if UPI already exists: 400 when it does.
create_ticket_precheck(r) ==
    /\ pc[r] = "precheck"
    /\ IF ExistsByUpi(tickets, ticket[r].upi_id)
       THEN Respond(r, UpiRegistered)
       ELSE /\ Goto(r, "insert")
            /\ UNCHANGED <<ticket, ticket_uid, row, inserted, conn>>
    /\ UNCHANGED <<tickets, nextUid, outbox, scanVars>>

\* The INSERT waits while another open transaction holds an uncommitted row
\* with the same unique key.
InsertWaits(r, new) ==
    \E o \in Requests \ {r} : UniqueViolation(inserted[o], new)

\* What create_ticket answers when the INSERT raises on a unique key:
\* except Exception -> conn.rollback(); HTTPException(500, "DB insert failed").
OnUniqueViolation == InsertRejected

\* The INSERT runs outside a transaction: the row is visible at once.
create_ticket_insert_Autocommit(r) ==
    /\ pc[r] = "insert"
    /\ LET new == InsertValues(ticket_uid[r], ticket[r]) IN
        /\ ~InsertWaits(r, new)
        /\ IF UniqueViolation(tickets, new)
           THEN Respond(r, OnUniqueViolation) /\ tickets' = tickets
           ELSE /\ tickets' = tickets \cup {new}
                /\ inserted' = [inserted EXCEPT ![r] = {new}]
                /\ row' = [row EXCEPT ![r] = Columns(new)]
                /\ Goto(r, "commit")
                /\ UNCHANGED <<ticket, ticket_uid, conn>>
    /\ UNCHANGED <<nextUid, outbox, scanVars>>

\* 1) Insert into DB: cur.execute(INSERT ... RETURNING ...); row = fetchone().
create_ticket_insert(r) ==
    /\ pc[r] = "insert"
    /\ LET new == InsertValues(ticket_uid[r], ticket[r]) IN
        /\ ~InsertWaits(r, new)
        /\ IF UniqueViolation(tickets, new)
           THEN Respond(r, OnUniqueViolation)
           ELSE /\ inserted' = [inserted EXCEPT ![r] = {new}]
                /\ row' = [row EXCEPT ![r] = Columns(new)]
                /\ Goto(r, "commit")
                /\ UNCHANGED <<ticket, ticket_uid, conn>>
    /\ UNCHANGED <<tickets, nextUid, outbox, scanVars>>

\* The handler goes on to the email without committing.
create_ticket_commit_Skipped(r) ==
    /\ pc[r] = "commit"
    /\ tickets' = tickets
    /\ inserted' = [inserted EXCEPT ![r] = {}]
    /\ Goto(r, "email")
    /\ UNCHANGED <<nextUid, outbox, ticket, ticket_uid, row, conn, scanVars>>

\* conn.commit(): the inserted row becomes visible to every connection.
create_ticket_commit(r) ==
    /\ pc[r] = "commit"
    /\ tickets' = tickets \cup inserted[r]
    /\ inserted' = [inserted EXCEPT ![r] = {}]
    /\ Goto(r, "email")
    /\ UNCHANGED <<nextUid, outbox, ticket, ticket_uid, row, conn, scanVars>>

\* send_ticket_email(recipient_email, ticket_uid, ticket, qr_png_bytes): the
\* recipient, the identifier, the fields the body prints and the payload of
\* the attached code (generate_qr_png_bytes(ticket_uid)); delivered or not.
Email(uid, t, ok) ==
    [to |-> t.email, ticket_uid |-> uid, ticket |-> t, qr |-> uid, delivered |-> ok]

\* The handler deletes the committed row when the email fails.
create_ticket_email_RollsBack(r, ok) ==
    /\ pc[r] = "email"
    /\ outbox' = outbox \cup {Email(ticket_uid[r], ticket[r], ok)}
    /\ tickets' = IF ok THEN tickets
                  ELSE {old \in tickets : old.ticket_uid # ticket_uid[r]}
    /\ Respond(r, IF ok THEN TicketResponse(row[r]) ELSE EmailFailed)
    /\ UNCHANGED <<nextUid, scanVars>>

\* 2) Generate QR, 3) Send email; RuntimeError -> 500, else the TicketResponse.
create_ticket_email(r, ok) ==
    /\ pc[r] = "email"
    /\ outbox' = outbox \cup {Email(ticket_uid[r], ticket[r], ok)}
    /\ Respond(r, IF ok THEN TicketResponse(row[r]) ELSE EmailFailed)
    /\ UNCHANGED <<tickets, nextUid, scanVars>>

(* ------------------ main.py: GET /tickets/{ticket_uid} ---------------- *)

get_ticket_begin(r, uid) ==
    /\ pc[r] = "idle"
    /\ ticket_uid' = [ticket_uid EXCEPT ![r] = uid]
    /\ conn' = [conn EXCEPT ![r] = TRUE]
    /\ Goto(r, "select")
    /\ UNCHANGED <<tickets, nextUid, outbox, ticket, row, inserted, scanVars>>

\* row = cur.fetchone(); 404 when there is none, else the TicketResponse.
get_ticket_select(r) ==
    /\ pc[r] = "select"
    /\ LET found == SelectByUid(tickets, ticket_uid[r]) IN
        IF found = {}
        THEN Respond(r, TicketNotFound)
        ELSE Respond(r, TicketResponse(Columns(CHOOSE x \in found : TRUE)))
    /\ UNCHANGED <<tickets, nextUid, outbox, scanVars>>

(* -------------------- main.py: the store fails ------------------------ *)

\* psycopg2.connect raises in get_db_conn: the handler never runs.
get_db_conn_fails(r) ==
    /\ pc[r] = "idle"
    /\ Respond(r, ConnectFailed)
    /\ UNCHANGED <<tickets, nextUid, outbox, scanVars>>

\* The except branch a failing statement reaches, by the handler's position.
OnStoreError(at) ==
    CASE at = "precheck" -> LookupFailed
      [] at = "insert"   -> InsertFailed
      [] at = "commit"   -> InsertFailed
      [] at = "select"   -> QueryFailed

\* A statement of the handler raises because the connection failed: the
\* open transaction is rolled back and the handler answers 500.
store_error(r) ==
    /\ pc[r] \in {"precheck", "insert", "commit", "select"}
    /\ Respond(r, OnStoreError(pc[r]))
    /\ UNCHANGED <<tickets, nextUid, outbox, scanVars>>

(* --------------------- scanner.py: verify_ticket ---------------------- *)

\* verify_ticket returns: its locals go away; an open transaction stays open
\* only on the paths that return before the UPDATE, where it holds no row.
Returns(s, res) ==
    /\ result' = res
    /\ spc' = [spc EXCEPT ![s] = "idle"]
    /\ scanned_uid' = [scanned_uid EXCEPT ![s] = NoUid]
    /\ updated' = [updated EXCEPT ![s] = {}]
    /\ admitted' = IF res.is_success
                   THEN [admitted EXCEPT ![res.ticket_uid] = @ + 1]
                   ELSE admitted
    /\ resp' = NoResponse

\* The check of is_scanned is left out.
Verdict_IgnoresFlag(found, uid) ==
    IF found = {} THEN NotFound(uid) ELSE NoResult

\* The check for a missing row is left out.
Verdict_IgnoresMissingRow(found, uid) ==
    IF found # {} /\ (CHOOSE x \in found : TRUE).is_scanned
    THEN AlreadyRedeemed(uid)
    ELSE NoResult

\* row = cur.fetchone(); if not row: ...; is_scanned = row[0]; if is_scanned: ...
\* What verify_ticket returns straight after its SELECT; NoResult when it goes
\* on to the UPDATE.
Verdict(found, uid) ==
    IF found = {}
    THEN NotFound(uid)
    ELSE IF (CHOOSE x \in found : TRUE).is_scanned
         THEN AlreadyRedeemed(uid)
         ELSE NoResult

\* The UPDATE waits while another open transaction holds an uncommitted
\* update of the same row.
UpdateWaits(s, uid) == \E o \in Scanners \ {s} : uid \in updated[o]

\* verify_ticket(conn, ticket_uid) up to and including the SELECT.
verify_ticket_select(s, uid) ==
    /\ spc[s] = "idle"
    /\ sconn[s]
    /\ LET v == Verdict(SelectByUid(tickets, uid), uid) IN
        IF v = NoResult
        THEN /\ spc' = [spc EXCEPT ![s] = "update"]
             /\ scanned_uid' = [scanned_uid EXCEPT ![s] = uid]
             /\ result' = NoResult
             /\ resp' = NoResponse
             /\ UNCHANGED <<updated, admitted>>
        ELSE Returns(s, v)
    /\ UNCHANGED <<tickets, nextUid, outbox, reqVars, sconn>>

\* cur.execute("UPDATE tickets SET is_scanned = TRUE WHERE ticket_uid = %s;")
verify_ticket_update(s) ==
    /\ spc[s] = "update"
    /\ ~UpdateWaits(s, scanned_uid[s])
    /\ updated' = [updated EXCEPT ![s] = {scanned_uid[s]}]
    /\ spc' = [spc EXCEPT ![s] = "commit"]
    /\ result' = NoResult
    /\ resp' = NoResponse
    /\ UNCHANGED <<tickets, nextUid, outbox, reqVars, scanned_uid, sconn, admitted>>

\* conn.commit(); return "USER VERIFIED - OK", True
verify_ticket_commit(s) ==
    /\ spc[s] = "commit"
    /\ tickets' = UpdateIsScanned(tickets, scanned_uid[s])
    /\ Returns(s, Redeemed(scanned_uid[s]))
    /\ UNCHANGED <<nextUid, outbox, reqVars, sconn>>

\* The SELECT raises: the connection fails now, or an earlier failure left it
\* unusable (verify_ticket never rolls back, __init__ connects only once).
verify_ticket_select_error(s, uid) ==
    /\ spc[s] = "idle"
    /\ sconn' = [sconn EXCEPT ![s] = FALSE]
    /\ Returns(s, DbError(uid))
    /\ UNCHANGED <<tickets, nextUid, outbox, reqVars>>

\* The UPDATE or the commit raises before the commit reaches the store: the
\* store drops the open transaction, verify_ticket returns "DB ERROR".
verify_ticket_error(s) ==
    /\ spc[s] \in {"update", "commit"}
    /\ sconn' = [sconn EXCEPT ![s] = FALSE]
    /\ Returns(s, DbError(scanned_uid[s]))
    /\ UNCHANGED <<tickets, nextUid, outbox, reqVars>>

(* --------------------- scanner.py: QRScannerApp ----------------------- *)

\* The text of an identifier, which is what the QR code of a ticket holds.
str(uid) == Rep("x", uid)

\* The identifier a text is the text of.
UidOf(text) == CHOOSE uid \in Payloads : str(uid) = text

\* What detectAndDecode returns: nothing, the text of a code, or that text
\* with whitespace around it.
Decoded ==
    {<<>>} \cup {str(uid) : uid \in Payloads}
           \cup {<<" ">> \o str(uid) \o <<" ">> : uid \in Payloads}

\* Every decoded code is taken for a new one.
IsNewScan_Always(uid, last) == TRUE

\* if ticket_uid != self.last_ticket:
IsNewScan(uid, last) == uid # last

\* update_frame does not call verify_ticket: the store and the connection
\* are left alone.
NoCall ==
    /\ result' = NoResult
    /\ resp' = NoResponse
    /\ UNCHANGED <<tickets, nextUid, outbox, reqVars, spc, scanned_uid,
                   updated, sconn, admitted>>

\* msg, success = verify_ticket(...); self.last_ticket = ticket_uid;
\* self.last_success = success; status_label green if success else red.
\* Nothing is shown while verify_ticket has not returned.
Shows(s, uid) ==
    IF result' # NoResult
    THEN /\ last_ticket' = [last_ticket EXCEPT ![s] = uid]
         /\ last_success' = [last_success EXCEPT ![s] = result'.is_success]
         /\ status_label' = [status_label EXCEPT ![s] =
               Label(result'.message, IF result'.is_success THEN "green" ELSE "red")]
    ELSE UNCHANGED <<last_ticket, last_success, status_label>>

\* update_frame with a frame read from the camera: decode, strip, and call
\* verify_ticket (up to and including its SELECT) for a new ticket_uid.
update_frame(s, data) ==
    /\ camera[s]
    /\ spc[s] = "idle"
    /\ IF data = <<>>
       THEN /\ frame' = Frame(s, NoUid)
            /\ NoCall
            /\ UNCHANGED uiVars
       ELSE LET uid == UidOf(Strip(data)) IN
            /\ frame' = Frame(s, uid)
            /\ presented' = [presented EXCEPT ![s] = uid]
            /\ camera' = camera
            /\ IF IsNewScan(uid, last_ticket[s])
               THEN /\ \/ verify_ticket_select(s, uid)
                       \/ verify_ticket_select_error(s, uid)
                    /\ Shows(s, uid)
               ELSE /\ NoCall
                    /\ UNCHANGED <<last_ticket, last_success, status_label>>

\* update_frame inside verify_ticket: the call runs its next statement, and
\* update_frame shows what it returns.
update_frame_verifying(s) ==
    /\ camera[s]
    /\ \/ verify_ticket_update(s)
       \/ verify_ticket_commit(s)
       \/ verify_ticket_error(s)
    /\ Shows(s, scanned_uid[s])
    /\ UNCHANGED <<camera, presented, frame>>

\* if not ret: status "CAMERA ERROR", and update_frame is not scheduled again.
update_frame_camera_error(s) ==
    /\ camera[s]
    /\ spc[s] = "idle"
    /\ camera' = [camera EXCEPT ![s] = FALSE]
    /\ status_label' = [status_label EXCEPT ![s] = Label("CAMERA ERROR", "red")]
    /\ frame' = NoFrame
    /\ NoCall
    /\ UNCHANGED <<last_ticket, last_success, presented>>

\* The button "Clear & Scan Next".
clear_scan(s) ==
    /\ spc[s] = "idle"
    /\ last_ticket' = [last_ticket EXCEPT ![s] = NoUid]
    /\ last_success' = [last_success EXCEPT ![s] = FALSE]
    /\ status_label' = [status_label EXCEPT ![s] = Label("SCAN A QR CODE", "black")]
    /\ presented' = [presented EXCEPT ![s] = NoUid]
    /\ frame' = NoFrame
    /\ NoCall
    /\ UNCHANGED camera

(* --------------------------- specifications --------------------------- *)

\* A request arrives: FastAPI validates, opens the connection, calls the handler.
Arrives(r) ==
    \/ \E raw \in Bodies : create_ticket_invalid(r, raw)
    \/ \E raw \in Bodies : create_ticket_begin(r, raw)
    \/ \E uid \in Payloads : get_ticket_begin(r, uid)
    \/ get_db_conn_fails(r)

\* A handler under way runs its next statement.
Proceeds(r) ==
    \/ create_ticket_precheck(r)
    \/ create_ticket_insert(r)
    \/ create_ticket_commit(r)
    \/ \E ok \in BOOLEAN : create_ticket_email(r, ok)
    \/ get_ticket_select(r)
    \/ store_error(r)

\* verify_ticket is called with a payload, the window left aside.
Scans(s) ==
    /\ \/ \E uid \in Payloads : verify_ticket_select(s, uid)
       \/ \E uid \in Payloads : verify_ticket_select_error(s, uid)
    /\ frame' = NoFrame
    /\ UNCHANGED uiVars

\* A verify_ticket call under way runs its next statement.
Continues(s) ==
    /\ \/ verify_ticket_update(s)
       \/ verify_ticket_commit(s)
       \/ verify_ticket_error(s)
    /\ frame' = NoFrame
    /\ UNCHANGED uiVars

\* No handler is under way; no verify_ticket call is under way.
ApiIdle == \A r \in Requests : pc[r] = "idle"
GatesIdle == \A s \in Scanners : spc[s] = "idle"

\* The worker that serves requests when they come one at a time.
Worker == CHOOSE r \in Requests : \A q \in Requests : r <= q

\* Requests and scans in every interleaving of their store statements.
Next ==
    \/ \E r \in Requests : Arrives(r)
    \/ \E r \in Requests : Proceeds(r)
    \/ \E s \in Scanners : Scans(s)
    \/ \E s \in Scanners : Continues(s)

Spec == Init /\ [][Next]_vars

\* The issuance service alone: concurrent requests, no gate open.
NextApi ==
    \/ \E r \in Requests : Arrives(r)
    \/ \E r \in Requests : Proceeds(r)

SpecApi == Init /\ [][NextApi]_vars

\* Racing gates: concurrent verify_ticket calls, interleaved with the
\* statements of HTTP requests that come one at a time.
NextGate ==
    \/ ApiIdle /\ Arrives(Worker)
    \/ Proceeds(Worker)
    \/ \E s \in Scanners : Scans(s)
    \/ \E s \in Scanners : Continues(s)

SpecGate == Init /\ [][NextGate]_vars

\* Sequential redemption: a verify_ticket call starts only when none is under
\* way; its statements interleave with those of HTTP requests that come one
\* at a time.
NextSeq ==
    \/ ApiIdle /\ Arrives(Worker)
    \/ Proceeds(Worker)
    \/ \E s \in Scanners : GatesIdle /\ Scans(s)
    \/ \E s \in Scanners : Continues(s)

SpecSeq == Init /\ [][NextSeq]_vars

\* The scanner whose window is watched when one gate is at work.
Gate == CHOOSE s \in Scanners : \A o \in Scanners : s <= o

\* One gate at work: its window reads frames and takes clicks, and its
\* verify_ticket calls interleave with the statements of HTTP requests that
\* come one at a time.
NextScan ==
    \/ ApiIdle /\ Arrives(Worker)
    \/ Proceeds(Worker)
    \/ \E data \in Decoded : update_frame(Gate, data)
    \/ update_frame_verifying(Gate)
    \/ update_frame_camera_error(Gate)
    \/ clear_scan(Gate)

SpecScan == Init /\ [][NextScan]_vars

(* ------------------------------- claims ------------------------------- *)

\* Some row carries this payment reference / this identifier.
HasUpi(rows, upi) == \E old \in rows : old.upi_id = upi
HasUid(rows, uid) == \E old \in rows : old.ticket_uid = uid

\* Request r, under way, sends its response in this step.
Ends(r) == pc[r] # "idle" /\ pc'[r] = "idle"

\* A verify_ticket call returns in this step with something other than "DB ERROR".
Answers == result' # NoResult /\ result'.message # "DB ERROR"

\* C1: when verify_ticket calls race on one issued, unredeemed ticket_id,
\* exactly one returns 'USER VERIFIED - OK' and the others 'USER ALREADY
\* VERIFIED': no identifier is ever answered 'USER VERIFIED - OK' twice.
C1_ExactlyOneRedeemed == \A uid \in Payloads : admitted[uid] <= 1

\* C2: with redemption calls one after the other, a call on an issued ticket
\* that the store answers returns Redeemed when no earlier call on that
\* ticket_id returned Redeemed, and AlreadyRedeemed in every later call,
\* whatever issuance and lookup requests run in between.
C2_FirstThenAlready ==
    [][(Answers /\ HasUid(tickets, result'.ticket_uid)) =>
          result' = IF admitted[result'.ticket_uid] = 0
                    THEN Redeemed(result'.ticket_uid)
                    ELSE AlreadyRedeemed(result'.ticket_uid)]_vars

\* A second call on a redeemed ticket has just been answered.
C2_Witness ==
    /\ result.message = "USER ALREADY VERIFIED"
    /\ admitted[result.ticket_uid] = 1

\* C3: a create_ticket request whose payment reference is already on a
\* committed row ends with DuplicateReference (400), whether it meets that row
\* at the pre-check or at the insert, and no two rows share a payment reference.
C3_OneSuccessOneDuplicate ==
    /\ [](\A a, b \in tickets : a.upi_id = b.upi_id => a = b)
    /\ [][\A r \in Requests :
            (/\ pc[r] \in {"precheck", "insert"}
             /\ Ends(r)
             /\ HasUpi(tickets, ticket[r].upi_id)
             /\ resp' \notin {LookupFailed, InsertFailed})
            => resp'.status = 400]_vars

\* C4: when the store rejects the insert of a request that passed the
\* pre-check, the request fails with the 400 the pre-check path returns, and
\* no new identifier is generated for it.
C4_LoserGetsDuplicateReference ==
    [][\A r \in Requests :
         (/\ pc[r] = "insert"
          /\ pc'[r] # "insert"
          /\ resp' # InsertFailed
          /\ UniqueViolation(tickets, InsertValues(ticket_uid[r], ticket[r])))
         => (resp' = UpiRegistered /\ nextUid' = nextUid)]_vars

\* The ticket an email was about, as get_ticket reports a row.
Submitted(m) == Columns(InsertValues(m.ticket_uid, m.ticket))

\* C5: a failed notification ends create_ticket with a 500 and leaves the
\* table alone; the committed row stays, and a lookup by its ticket_uid
\* answers 200 with the fields create_ticket was given.
C5_TicketSurvivesEmailFailure ==
    /\ [](\A m \in outbox :
            ~m.delivered => \E old \in tickets : Columns(old) = Submitted(m))
    /\ [][\A m \in outbox' \ outbox :
            ~m.delivered => (resp'.status = 500 /\ tickets' = tickets)]_vars
    /\ [][\A r \in Requests, m \in outbox :
            (/\ pc[r] = "select"
             /\ Ends(r)
             /\ resp' # QueryFailed
             /\ ~m.delivered
             /\ m.ticket_uid = ticket_uid[r])
            => resp' = [status |-> 200, detail |-> "", body |-> Submitted(m)]]_vars

\* A lookup has just returned a ticket whose email was never delivered.
C5_Witness ==
    /\ resp.status = 200
    /\ \E m \in outbox : ~m.delivered /\ resp.body = Submitted(m)

\* C6: a verify_ticket call with a ticket_uid that has no row returns
\* "USER DOESN'T EXIST" (or "DB ERROR" when the store fails) and leaves the
\* table as it was.
C6_UnknownIsNotFound ==
    [][(result' # NoResult /\ ~HasUid(tickets, result'.ticket_uid)) =>
          /\ tickets' = tickets
          /\ result' \in {NotFound(result'.ticket_uid), DbError(result'.ticket_uid)}]_vars

\* An unknown ticket_uid has just been answered while the table holds rows.
C6_Witness ==
    /\ result.message = "USER DOESN'T EXIST"
    /\ tickets # {}
    /\ ~HasUid(tickets, result.ticket_uid)

\* C7: a row is created with is_scanned false, and a row whose is_scanned is
\* true is still there with is_scanned true after every step.
C7_RedeemedIsMonotonic ==
    [][/\ \A old \in tickets : old.is_scanned =>
            \E new \in tickets' : new.ticket_uid = old.ticket_uid /\ new.is_scanned
       /\ \A new \in tickets' : ~HasUid(tickets, new.ticket_uid) => ~new.is_scanned]_vars

\* One ticket is redeemed, a request is served after that, and another
\* ticket is not redeemed.
C7_Witness ==
    /\ \E a, b \in tickets : a.is_scanned /\ ~b.is_scanned
    /\ resp.status = 200

\* C8: create_ticket requests get pairwise distinct identifiers, no two rows
\* share a ticket_uid, and a valid request fails only on a payment reference
\* another row already carries, on a store error or on a failed email;
\* otherwise it answers 200 with its own identifier.
C8_DistinctIdentifiers ==
    /\ [](\A a, b \in tickets : a.ticket_uid = b.ticket_uid => a = b)
    /\ [](\A q, r \in Requests :
            (q # r /\ ticket[q] # NoTicket /\ ticket[r] # NoTicket)
            => ticket_uid[q] # ticket_uid[r])
    /\ [][\A r \in Requests :
            (Ends(r) /\ ticket[r] # NoTicket) =>
                \/ /\ resp'.status = 200
                   /\ resp'.body.ticket_uid = ticket_uid[r]
                   /\ resp'.body.upi_id = ticket[r].upi_id
                \/ resp' \in {LookupFailed, InsertFailed, EmailFailed}
                \/ /\ pc[r] \in {"precheck", "insert"}
                   /\ HasUpi(tickets, ticket[r].upi_id)]_vars

\* Two requests with different payment references have both been issued
\* tickets, the second one just now.
C8_Witness ==
    /\ resp.status = 200
    /\ \E a, b \in tickets : a.upi_id # b.upi_id /\ a.ticket_uid # b.ticket_uid
    /\ \E m \in outbox : m.delivered /\ m.ticket_uid = resp.body.ticket_uid

\* C9: create_ticket's body, and with it every store access, runs only for a
\* request whose ticket_count is at least 1, and every row of the table has
\* ticket_count >= 1.
C9_QuantityIsPositive ==
    /\ [][\A r \in Requests :
            (pc[r] = "idle" /\ pc'[r] = "precheck") => ticket'[r].ticket_count >= 1]_vars
    /\ [](\A old \in tickets : old.ticket_count >= 1)

\* C10 as stated: a request the pre-check rejects has generated no identifier.
C10_NoIdentifierGenerated ==
    [][\A r \in Requests :
         (pc[r] = "precheck" /\ Ends(r) /\ resp' = UpiRegistered)
         => ticket_uid[r] = NoUid]_vars

\* C10 as amended: when the pre-check finds a row with the request's payment
\* reference, the request ends with the 400 (or a 500 when the statement
\* fails); the identifier generated on entry is on no row and in no email, no
\* further identifier is generated, no email is sent and no row is inserted or
\* changed.
C10_DuplicateLeavesNoTrace ==
    [][\A r \in Requests :
         (/\ pc[r] = "precheck"
          /\ pc'[r] # "precheck"
          /\ HasUpi(tickets, ticket[r].upi_id))
         => /\ resp' \in {UpiRegistered, LookupFailed}
            /\ pc'[r] = "idle"
            /\ tickets' = tickets
            /\ outbox' = outbox
            /\ inserted' = inserted
            /\ nextUid' = nextUid
            /\ ~HasUid(tickets', ticket_uid[r])
            /\ \A m \in outbox' : m.ticket_uid # ticket_uid[r]]_vars

\* The pre-check has just rejected a request, with a ticket in the table.
C10_Witness ==
    /\ resp = UpiRegistered
    /\ tickets # {}

\* C12: a request that is not under way holds no open connection, and the
\* step in which a request sends its response, whatever the response, closes
\* the connection get_db_conn opened for it.
C12_ConnectionClosedAtExit ==
    /\ [](\A r \in Requests : pc[r] = "idle" => ~conn[r])
    /\ [][\A r \in Requests : Ends(r) => (conn[r] /\ ~conn'[r])]_vars

\* A request has just ended on a failed email, its connection closed, while
\* another request is under way with its connection open.
C12_Witness ==
    /\ resp = EmailFailed
    /\ \E q, r \in Requests : pc[q] = "idle" /\ ~conn[q] /\ pc[r] # "idle" /\ conn[r]

\* C13: every row of the table is still there after every step, with the
\* same ticket_uid, name, mobile, email, upi_id, ticket_type and
\* ticket_count; a step changes at most the is_scanned column of a row.
C13_OnlyIsScannedChanges ==
    [][\A old \in tickets :
         \E new \in tickets' :
            /\ Columns(new) = Columns(old)
            /\ \A other \in tickets' : other.ticket_uid = old.ticket_uid => other = new]_vars

\* A ticket has just been redeemed while the table holds another row, and
\* the redeemed row is not the one with the default quantity.
C13_Witness ==
    /\ result.is_success
    /\ \E a, b \in tickets :
          /\ a.ticket_uid = result.ticket_uid
          /\ a.is_scanned
          /\ a.ticket_count # TicketCountDefault
          /\ b.ticket_uid # a.ticket_uid

\* C14: a request that ends at its INSERT or at its commit ends with a 500,
\* its transaction gone; the table and the emails sent are as they were, no
\* row and no email carries its ticket_uid; a row inserted but not yet
\* committed is in no other connection's view of the table, and a lookup by
\* its ticket_uid answers 404 (or 500 when the lookup itself fails).
C14_FailedInsertLeavesNothing ==
    /\ [][\A r \in Requests :
            (pc[r] \in {"insert", "commit"} /\ Ends(r)) =>
                /\ resp'.status = 500
                /\ inserted'[r] = {}
                /\ tickets' = tickets
                /\ outbox' = outbox
                /\ ~HasUid(tickets', ticket_uid[r])
                /\ \A m \in outbox' : m.ticket_uid # ticket_uid[r]]_vars
    /\ [](\A r \in Requests : \A new \in inserted[r] :
            ~HasUid(tickets, new.ticket_uid))
    /\ [][\A q, r \in Requests :
            (/\ inserted[q] # {}
             /\ pc[r] = "select"
             /\ Ends(r)
             /\ ticket_uid[r] = ticket_uid[q])
            => resp' \in {TicketNotFound, QueryFailed}]_vars

\* A request has just failed at its INSERT or commit, after an earlier
\* request was issued a ticket.
C14_Witness ==
    /\ resp \in {InsertFailed, InsertRejected}
    /\ tickets # {}
    /\ \E r \in Requests : pc[r] = "idle" /\ inserted[r] = {}

\* C15: a verify_ticket call that returns "DB ERROR" leaves the table as it
\* was, and the scanner's connection is usable again when the call has
\* returned, so that the next call on it reaches the store and is answered
\* from the row's is_scanned.
C15_RetryAfterStoreError ==
    /\ [][result'.message = "DB ERROR" => tickets' = tickets]_vars
    /\ [](\A s \in Scanners : spc[s] = "idle" => sconn[s])

\* C16: every email sent, delivered or not, carries the ticket_uid of a
\* committed row; an email is sent only by a request past its commit; and a
\* create_ticket request answers 200 only in a step after its row was
\* committed and in which its email is delivered.
C16_CommitBeforeEmail ==
    /\ [](\A m \in outbox : HasUid(tickets, m.ticket_uid))
    /\ [][\A m \in outbox' \ outbox :
            \E r \in Requests :
                /\ pc[r] = "email"
                /\ m.ticket_uid = ticket_uid[r]
                /\ HasUid(tickets, ticket_uid[r])]_vars
    /\ [][\A r \in Requests :
            (Ends(r) /\ ticket[r] # NoTicket /\ resp'.status = 200) =>
                /\ pc[r] = "email"
                /\ HasUid(tickets, ticket_uid[r])
                /\ \E m \in outbox' \ outbox :
                      m.delivered /\ m.ticket_uid = ticket_uid[r]]_vars

\* A create_ticket request has just answered 200 after its email was
\* delivered, and an earlier email failed.
C16_Witness ==
    /\ resp.status = 200
    /\ \E m \in outbox : m.delivered /\ m.ticket_uid = resp.body.ticket_uid
    /\ \E m \in outbox : ~m.delivered

\* C17: once the email of a committed ticket has failed, a create_ticket
\* request with the same upi_id ends at its pre-check, with the 400 (or a
\* 500 when the lookup fails), and sends nothing; no second email, delivered
\* or not, is ever sent for that upi_id or that ticket_uid.
C17_FailedEmailIsNeverResent ==
    /\ [][\A r \in Requests :
            (/\ pc[r] = "precheck"
             /\ pc'[r] # "precheck"
             /\ \E m \in outbox : ~m.delivered /\ m.ticket.upi_id = ticket[r].upi_id)
            => /\ pc'[r] = "idle"
               /\ resp' \in {UpiRegistered, LookupFailed}
               /\ outbox' = outbox
               /\ tickets' = tickets]_vars
    /\ [](\A m, n \in outbox :
            (/\ ~m.delivered
             /\ (n.ticket.upi_id = m.ticket.upi_id \/ n.ticket_uid = m.ticket_uid))
            => n = m)

\* The one ticket of the table had its email fail, and a request has just
\* been rejected by the pre-check.
C17_Witness ==
    /\ resp = UpiRegistered
    /\ Cardinality(tickets) = 1
    /\ \E m \in outbox : ~m.delivered /\ HasUid(tickets, m.ticket_uid)

\* Scanner s makes a verify_ticket call in this step.
Calls(s) == spc[s] = "idle" /\ (spc'[s] # "idle" \/ result' # NoResult)

\* C11: when a window is shown a ticket that is already redeemed, in a frame
\* that follows a frame without that code or a click on "Clear & Scan Next",
\* the status it shows after the frame is not "USER VERIFIED - OK".
C11_RedeemedNeverShownValid ==
    [][\A s \in Scanners, uid \in Payloads :
         (/\ frame' = Frame(s, uid)
          /\ frame # frame'
          /\ \E old \in tickets : old.ticket_uid = uid /\ old.is_scanned)
         => status_label'[s].text # "USER VERIFIED - OK"]_vars

\* C18: a frame that decodes a ticket_uid calls verify_ticket exactly when
\* that ticket_uid is not the one decoded last since the window was opened
\* or cleared; once the call has returned, with whatever message,
\* last_ticket is that ticket_uid, and after clear_scan it is None again.
C18_OneCallPerRun ==
    /\ [][\A s \in Scanners, uid \in Payloads :
            (frame' = Frame(s, uid) /\ Calls(s)) => uid # presented[s]]_vars
    /\ [][\A s \in Scanners, uid \in Payloads :
            (frame' = Frame(s, uid) /\ uid # presented[s]) => Calls(s)]_vars
    /\ [](\A s \in Scanners : spc[s] = "idle" => last_ticket[s] = presented[s])

\* A frame has just decoded the ticket_uid of the frames before it, whose
\* call returned "DB ERROR", and verify_ticket was not called again.
C18_Witness ==
    /\ ApiIdle
    /\ resp = NoResponse
    /\ result = NoResult
    /\ \E s \in Scanners :
          /\ spc[s] = "idle"
          /\ last_ticket[s] # NoUid
          /\ frame = Frame(s, last_ticket[s])
          /\ status_label[s] = Label("DB ERROR", "red")

====
